---- MODULE Spec2Model ----
(***************************************************************************)
(* Model of the cli parser of thegrumpylion/cnc: Parser.Execute (the       *)
(* runner lifecycle with its OnErrorStrategy), Parser.Eval (the argument   *)
(* tokenizer/resolver) and Parser.NewRootCommand with Parser.walkStruct    *)
(* (the schema builder), all of parser.go.                                 *)
(***************************************************************************)
EXTENDS Integers, Sequences, FiniteSets, TLC

\* ------------------------------------------------------------------------
\* Bounds of the model
\* ------------------------------------------------------------------------
MaxTree == 2          \* longest execTree drawn for Execute
MaxFail == 2          \* most hook failures explored in one Execute
MaxArgs == 3          \* most tokens after the command name in one Eval
MaxCalls == 2         \* most Eval calls made on one parser
MaxFields == 2        \* most fields of the record type handed to NewRootCommand

\* ------------------------------------------------------------------------
\* Execute: constants of the program
\* ------------------------------------------------------------------------
OnErrorBreak == 0
OnErrorPostRunners == 1
OnErrorPostRunnersContinue == 2
OnErrorContinue == 3
OnErrorStrategy == {OnErrorBreak, OnErrorPostRunners, OnErrorPostRunnersContinue, OnErrorContinue}

\* the five optional runner interfaces, named by their method
Hooks == {"PersistentPreRun", "PersistentPostRun", "PreRun", "Run", "PostRun"}
MainHooks == {"PersistentPreRun", "PreRun", "Run", "PostRun"}

\* the bound record instances a command's path.Get() can return
Instances == {"app", "serve"}

\* the nil error
NoErr == <<>>

VARIABLES
    strategy,       \* Parser.strategy
    execTree,       \* Parser.execTree: sequence of bound instances
    implements,     \* instance -> set of runner interfaces its type implements
    pc,             \* position inside Execute
    i,              \* index of the main loop (1-based)
    lastCmd,        \* local lastCmd (1-based: Len(execTree))
    pPostRunners,   \* local pPostRunners: positions of execTree, head runs first
    err,            \* local err
    ctx,            \* value of lastErrorKey{} in the local ctx (NoErr: absent)
    ret,            \* the value Execute returned
    calls,          \* history: the hook invocations made, in order
    entered,        \* history: the positions whose loop body began, in order
    nfail           \* history: number of hooks that failed

execLocals == <<strategy, implements, pc, i, lastCmd, pPostRunners, err, ctx, ret, calls, entered, nfail>>

execVars == <<strategy, execTree, implements, pc, i, lastCmd, pPostRunners, err, ctx, ret, calls, entered, nfail>>

VARIABLES
    shapeA,         \* the argument of the root command (schema, fixed after build)
    leafSubcmdNil,  \* whether the subcmd table of command serve is nil (schema)
    isSet,          \* argument.isSet of each argument
    field,          \* the bound field of each argument, read through its path
    epc,            \* position inside Eval
    args,           \* local args of Eval (after args = args[1:])
    ei,             \* local i of Eval (0-based, as in the code)
    c,              \* local c of Eval: the current command
    positional,     \* local positional
    positionals,    \* local positionals
    values,         \* local values: argument -> raw strings (<<>>: no entry)
    eret,           \* the value Eval returned
    termAt,         \* history: position in args of the "--" that set positional
    ncalls,         \* history: number of Eval calls begun
    applied         \* history: argument -> times setValues applied it in this call

evalVars == <<shapeA, leafSubcmdNil, isSet, field, epc, args, ei, c, positional, positionals, values, eret, termAt, ncalls, applied>>

VARIABLES
    rootArg,        \* the value handed to NewRootCommand: its kind, the fields of its type
    globalsEnabled, \* Parser.globalsEnabled
    bpc,            \* position of NewRootCommand: "new", "built", "panicked"
    built           \* what NewRootCommand has built: commands, arguments, panic

buildVars == <<rootArg, globalsEnabled, bpc, built>>

vars == <<execVars, evalVars, buildVars>>

\* ------------------------------------------------------------------------
\* Helpers
\* ------------------------------------------------------------------------
RECURSIVE SeqsUpTo(_, _)
SeqsUpTo(S, n) ==
    IF n = 0 THEN {<<>>}
    ELSE LET shorter == SeqsUpTo(S, n - 1)
         IN shorter \cup {Append(s, x) : s \in {t \in shorter : Len(t) = n - 1}, x \in S}

\* the error a failing hook returns: identified by the hook and the position
\* of its node in execTree
HookErr(h, n) == <<h, n>>

\* LastErrorFromContext: ctx.Value(lastErrorKey{}).(error); the type
\* assertion on a missing value panics
GoPanic == <<"panic", 0>>

LastErrorFromContext(cx) == IF cx = NoErr THEN GoPanic ELSE cx

\* one hook invocation as recorded in the history
Call(h, n, cx, failed) == [hook |-> h, node |-> n, ctx |-> cx, failed |-> failed]

\* ------------------------------------------------------------------------
\* Execute
\* ------------------------------------------------------------------------
ExecInit ==
    /\ strategy \in OnErrorStrategy
    /\ execTree \in SeqsUpTo(Instances, MaxTree)
    /\ implements \in [Instances -> SUBSET Hooks]
    /\ pc = "start"
    /\ i = 1
    /\ lastCmd = 0
    /\ pPostRunners = <<>>
    /\ err = NoErr
    /\ ctx = NoErr
    /\ ret = NoErr
    /\ calls = <<>>
    /\ entered = <<>>
    /\ nfail = 0

\* lines 281-283: locals of Execute
ExecuteStart ==
    /\ pc = "start"
    /\ err' = NoErr
    /\ lastCmd' = Len(execTree)
    /\ pPostRunners' = <<>>
    /\ i' = 1
    /\ pc' = "enter"
    /\ UNCHANGED <<strategy, execTree, implements, ctx, ret, calls, entered, nfail>>
    /\ UNCHANGED <<evalVars, buildVars>>

\* line 294 (and 305, 315, 325): a failed hook of the main loop breaks out
\* of the loop unless the strategy is OnErrorContinue
BreaksMainLoop_first(e) == e # NoErr /\ strategy = OnErrorBreak

BreaksMainLoop(e) == e # NoErr /\ strategy # OnErrorContinue

\* line 297 (and 308, 318, 328, 344): ctx = context.WithValue(ctx,
\* lastErrorKey{}, err), reached only with err != nil
WithLastError_keepfirst(cx, e) == IF e # NoErr /\ cx = NoErr THEN e ELSE cx

WithLastError(cx, e) == IF e # NoErr THEN e ELSE cx

\* line 288: prepend to pPostRunners
Push_append(stack, n) == Append(stack, n)

Push(stack, n) == <<n>> \o stack

\* line 300: i == lastCmd
IsLast_any(n) == TRUE

IsLast(n) == n = lastCmd

\* line 334: return before the deferred hooks
HaltBeforeDeferred_never(e) == FALSE

HaltBeforeDeferred(e) == e # NoErr /\ strategy = OnErrorBreak

\* line 341: a failed PersistentPostRun ends the deferred loop
HaltDeferred_never(e) == FALSE

HaltDeferred(e) == e # NoErr /\ strategy = OnErrorPostRunners

\* what follows a hook of the main loop that returned e (NoErr: success)
\* lines 293-298 and their three copies: break unless OnErrorContinue,
\* else stash the error in ctx
AfterMainHook(e, nextpc, nexti) ==
    /\ err' = e
    /\ IF BreaksMainLoop(e)
       THEN /\ pc' = "check"
            /\ UNCHANGED <<i, ctx>>
       ELSE /\ pc' = nextpc
            /\ i' = nexti
            /\ ctx' = WithLastError(ctx, e)

\* lines 285-300: top of the loop body: push PersistentPostRunner, run
\* PersistentPreRun
Enter ==
    /\ pc = "enter"
    /\ IF i > Len(execTree)
       THEN /\ pc' = "check"
            /\ UNCHANGED <<i, pPostRunners, err, ctx, calls, entered, nfail>>
       ELSE LET inf == execTree[i]
                nextpc == IF IsLast(i) THEN "PreRun" ELSE "enter"
                nexti == IF IsLast(i) THEN i ELSE i + 1
            IN /\ entered' = Append(entered, i)
               /\ pPostRunners' = IF "PersistentPostRun" \in implements[inf]
                                  THEN Push(pPostRunners, i)
                                  ELSE pPostRunners
               /\ IF "PersistentPreRun" \in implements[inf]
                  THEN \E failed \in BOOLEAN :
                         /\ failed => nfail < MaxFail
                         /\ nfail' = IF failed THEN nfail + 1 ELSE nfail
                         /\ calls' = Append(calls, Call("PersistentPreRun", i, ctx, failed))
                         /\ AfterMainHook(IF failed THEN HookErr("PersistentPreRun", i) ELSE NoErr,
                                          nextpc, nexti)
                  ELSE /\ pc' = nextpc
                       /\ i' = nexti
                       /\ UNCHANGED <<err, ctx, calls, nfail>>
    /\ UNCHANGED <<strategy, execTree, implements, lastCmd, ret>>
    /\ UNCHANGED <<evalVars, buildVars>>

\* lines 301-330: one of the three hooks of the last node
LastNodeHook(h, nextpc, nexti) ==
    /\ pc = h
    /\ LET inf == execTree[i]
       IN IF h \in implements[inf]
          THEN \E failed \in BOOLEAN :
                 /\ failed => nfail < MaxFail
                 /\ nfail' = IF failed THEN nfail + 1 ELSE nfail
                 /\ calls' = Append(calls, Call(h, i, ctx, failed))
                 /\ AfterMainHook(IF failed THEN HookErr(h, i) ELSE NoErr, nextpc, nexti)
          ELSE /\ pc' = nextpc
               /\ i' = nexti
               /\ UNCHANGED <<err, ctx, calls, nfail>>
    /\ UNCHANGED <<strategy, execTree, implements, lastCmd, pPostRunners, ret, entered>>
    /\ UNCHANGED <<evalVars, buildVars>>

PreRun == LastNodeHook("PreRun", "Run", i)

Run == LastNodeHook("Run", "PostRun", i)

PostRun == LastNodeHook("PostRun", "enter", i + 1)

\* lines 333-336
CheckStrategy ==
    /\ pc = "check"
    /\ IF HaltBeforeDeferred(err)
       THEN /\ ret' = err
            /\ pc' = "done"
       ELSE /\ pc' = "deferred"
            /\ UNCHANGED ret
    /\ UNCHANGED <<strategy, execTree, implements, i, lastCmd, pPostRunners, err, ctx, calls, entered, nfail>>
    /\ UNCHANGED <<evalVars, buildVars>>

\* lines 338-346: one iteration of the deferred loop
PersistentPostRun ==
    /\ pc = "deferred"
    /\ pPostRunners # <<>>
    /\ LET n == Head(pPostRunners)
           e(failed) == IF failed THEN HookErr("PersistentPostRun", n) ELSE NoErr
       IN \E failed \in BOOLEAN :
            /\ failed => nfail < MaxFail
            /\ nfail' = IF failed THEN nfail + 1 ELSE nfail
            /\ calls' = Append(calls, Call("PersistentPostRun", n, ctx, failed))
            /\ err' = e(failed)
            /\ IF HaltDeferred(e(failed))
               THEN /\ ret' = e(failed)
                    /\ pc' = "done"
                    /\ UNCHANGED <<ctx, pPostRunners>>
               ELSE /\ ctx' = WithLastError(ctx, e(failed))
                    /\ pPostRunners' = Tail(pPostRunners)
                    /\ UNCHANGED <<ret, pc>>
    /\ UNCHANGED <<strategy, execTree, implements, i, lastCmd, entered>>
    /\ UNCHANGED <<evalVars, buildVars>>

\* line 347
ExecuteReturn ==
    /\ pc = "deferred"
    /\ pPostRunners = <<>>
    /\ ret' = err
    /\ pc' = "done"
    /\ UNCHANGED <<strategy, execTree, implements, i, lastCmd, pPostRunners, err, ctx, calls, entered, nfail>>
    /\ UNCHANGED <<evalVars, buildVars>>

\* ------------------------------------------------------------------------
\* Strings: a Go string is modelled as the sequence of its characters
\* ------------------------------------------------------------------------
tTerm == <<"-", "-">>                    \* "--"
tA == <<"-", "-", "a">>                  \* "--a", long flag of the root's argument
tB == <<"-", "-", "b">>                  \* "--b", long flag of serve's argument
tZ == <<"-", "-", "z">>                  \* "--z", no such flag
tAeq1 == <<"-", "-", "a", "=", "1">>     \* "--a=1"
tServe == <<"s">>                        \* "s", the subcommand of the root
t1 == <<"1">>                            \* "1"
tX == <<"x">>                            \* "x"
tEmpty == <<>>                           \* ""
tTrue == <<"t", "r", "u", "e">>          \* "true"
tApp == <<"a", "p", "p">>                \* "app", the root command
tPathApp == <<"/", "a", "p", "p">>       \* "/app"
tNoCmd == <<"z">>                        \* "z", no such root command

\* the tokens an argument vector is drawn from
Tokens == {tTerm, tA, tB, tZ, tAeq1, tServe, t1, tX, tEmpty}

\* the first token of an argument vector
CmdNames == {tApp, tPathApp, tNoCmd}

\* strings.HasPrefix(s, "-")
HasDashPrefix(s) == Len(s) >= 1 /\ s[1] = "-"

\* strings.TrimLeft(s, "-")
RECURSIVE TrimLeftDash(_)
TrimLeftDash(s) == IF s # <<>> /\ Head(s) = "-" THEN TrimLeftDash(Tail(s)) ELSE s

\* lines 512-514
isFlag(s) == HasDashPrefix(s) /\ TrimLeftDash(s) # <<>>

\* strings.Index(s, "="): 0-based index of the first "=", -1 if none
RECURSIVE IndexFrom(_, _)
IndexFrom(s, k) ==
    IF k > Len(s) THEN -1
    ELSE IF s[k] = "=" THEN k - 1
    ELSE IndexFrom(s, k + 1)

IndexEq(s) == IndexFrom(s, 1)

\* s[:hi] and s[lo:] of Go (0-based bounds); out of range is a run-time panic
SliceTo(s, hi) == SubSeq(s, 1, hi)

SliceFromOK(s, lo) == lo <= Len(s)

SliceFrom(s, lo) == SubSeq(s, lo + 1, Len(s))

\* filepath.Base: the last element of the path, trailing slashes removed
RECURSIVE StripTrailingSlash(_)
StripTrailingSlash(s) ==
    IF Len(s) > 1 /\ s[Len(s)] = "/" THEN StripTrailingSlash(SubSeq(s, 1, Len(s) - 1)) ELSE s

RECURSIVE AfterLastSlash(_, _)
AfterLastSlash(s, k) ==
    IF k = 0 THEN s
    ELSE IF s[k] = "/" THEN SubSeq(s, k + 1, Len(s))
    ELSE AfterLastSlash(s, k - 1)

Base(s) ==
    IF s = <<>> THEN <<".">>
    ELSE LET t == StripTrailingSlash(s)
             b == AfterLastSlash(t, Len(t))
         IN IF b = <<>> THEN <<"/">> ELSE b

\* strings.ToLower on the characters of the model
LowerChar(ch) ==
    IF ch = "X" THEN "x" ELSE IF ch = "A" THEN "a" ELSE IF ch = "S" THEN "s" ELSE ch

ToLower(s) == [k \in DOMAIN s |-> LowerChar(s[k])]

Digits == {"0", "1", "2", "3", "4", "5", "6", "7", "8", "9"}

DigitVal(ch) ==
    CASE ch = "0" -> 0 [] ch = "1" -> 1 [] ch = "2" -> 2 [] ch = "3" -> 3 [] ch = "4" -> 4
      [] ch = "5" -> 5 [] ch = "6" -> 6 [] ch = "7" -> 7 [] ch = "8" -> 8 [] ch = "9" -> 9

\* ------------------------------------------------------------------------
\* Errors of Eval
\* ------------------------------------------------------------------------
ErrCommandNotFound(t) == <<"command not found", t>>

ErrNoSuchFlag(t) == <<"no such flag", t>>

ErrOverCapacity == <<"array over capacity", <<>>>>

ErrRequired(long) == <<"required flag not set", long>>

ErrInvalidValue(v) == <<"invalid value", v>>

\* a run-time panic of Eval (index or slice bounds out of range)
EvalPanic == <<"panic", <<>>>>

\* ------------------------------------------------------------------------
\* The command tree the schema builder produced
\* ------------------------------------------------------------------------
ArgIds == {"A", "B"}

Nil == "nil"

\* the declared length of the fixed-length arrays of the schema
ArrayLens == {1, 2}

Argument(typ, isArray, isSlice, arrayLen, separate, required) ==
    [typ |-> typ, isArray |-> isArray, isSlice |-> isSlice, arrayLen |-> arrayLen,
     separate |-> separate, required |-> required]

\* the shapes the argument of the root command is drawn from: typ is the
\* kind of the field (of the element, for arrays and slices)
ScalarShapes ==
    {Argument("bool", FALSE, FALSE, 0, FALSE, FALSE),
     Argument("enum", FALSE, FALSE, 0, FALSE, FALSE),
     Argument("text", FALSE, FALSE, 0, FALSE, FALSE)}
    \cup {Argument(t, FALSE, FALSE, 0, FALSE, r) : t \in {"int", "string"}, r \in BOOLEAN}

ArrayShapes ==
    {Argument("int", TRUE, FALSE, n, sep, r) : n \in ArrayLens, sep \in BOOLEAN, r \in BOOLEAN}
    \cup {Argument("string", FALSE, TRUE, -1, sep, FALSE) : sep \in BOOLEAN}

ArgShapes == ScalarShapes \cup ArrayShapes

\* argument serve owns: a required integer flag
ShapeB == Argument("int", FALSE, FALSE, 0, FALSE, TRUE)

Arg(a) == IF a = "A" THEN shapeA ELSE ShapeB

Long(a) == IF a = "A" THEN tA ELSE tB

\* command.AllFlags: the arguments the command owns
AllFlags(cmd) == IF cmd = "app" THEN {"A"} ELSE {"B"}

\* command.GetFlag: the argument of the command with that long name
GetFlag(cmd, name) ==
    IF \E a \in AllFlags(cmd) : Long(a) = name
    THEN CHOOSE a \in AllFlags(cmd) : Long(a) = name
    ELSE Nil

\* Parser.cmds: the root commands by name
RootCmd(name) == IF name = tApp THEN "app" ELSE Nil

\* command.subcmd of a command: nil, or the table name -> command
SubcmdIsNil(cmd) == cmd = "serve" /\ leafSubcmdNil

Subcmd(cmd, name) == IF cmd = "app" /\ name = tServe THEN "serve" ELSE Nil

\* command.path.Get(): the bound instance of a command
PathGet(cmd) == cmd

\* argument.isBool
isBool(a) == Arg(a).typ = "bool" /\ ~Arg(a).isArray /\ ~Arg(a).isSlice

\* the zero value of the field of an argument
ZeroValue(sh) ==
    IF sh.isArray \/ sh.isSlice THEN <<>>
    ELSE IF sh.typ = "bool" THEN FALSE
    ELSE IF sh.typ \in {"int", "enum"} THEN 0
    ELSE <<>>

\* Parser.enums of the enum type: lowercased label -> value
EnumLabels == {tX}

EnumValue(label) == IF label \in EnumLabels THEN 2 ELSE 0

\* ------------------------------------------------------------------------
\* Value coercion
\* ------------------------------------------------------------------------
RECURSIVE AtoiFrom(_, _, _)
AtoiFrom(s, k, acc) == IF k > Len(s) THEN acc ELSE AtoiFrom(s, k + 1, acc * 10 + DigitVal(s[k]))

IsNumber(s) == s # <<>> /\ \A k \in DOMAIN s : s[k] \in Digits

\* conversion of one raw string to a scalar of kind typ: [ok, val]
Convert(typ, raw) ==
    CASE typ = "string" -> [ok |-> TRUE, val |-> raw]
      [] typ = "int" -> IF IsNumber(raw) THEN [ok |-> TRUE, val |-> AtoiFrom(raw, 1, 0)]
                        ELSE [ok |-> FALSE, val |-> 0]
      [] typ = "bool" -> IF raw \in {tTrue, t1} THEN [ok |-> TRUE, val |-> TRUE]
                         ELSE [ok |-> FALSE, val |-> FALSE]
      [] OTHER -> [ok |-> FALSE, val |-> 0]

RECURSIVE ConvertAll(_, _)
ConvertAll(typ, raws) ==
    IF raws = <<>> THEN <<>> ELSE <<Convert(typ, Head(raws)).val>> \o ConvertAll(typ, Tail(raws))

\* the UnmarshalText of the custom type of the schema: rejects the empty text
TextAccepts(raw) == raw # <<>>

\* argument.setArrayValue: more than one raw value
setArrayValue(sh, raws, old) ==
    IF \E k \in DOMAIN raws : ~Convert(sh.typ, raws[k]).ok
    THEN [err |-> ErrInvalidValue(raws[CHOOSE k \in DOMAIN raws : ~Convert(sh.typ, raws[k]).ok]),
          val |-> old]
    ELSE IF sh.isArray
         THEN IF Len(raws) > sh.arrayLen
              THEN [err |-> ErrOverCapacity, val |-> old]
              ELSE [err |-> NoErr, val |-> ConvertAll(sh.typ, raws)]
         ELSE [err |-> NoErr, val |-> old \o ConvertAll(sh.typ, raws)]

\* argument.setScalarValue: one raw value (for an array or a slice: a
\* list of one element)
setScalarValue(sh, raw, old) ==
    IF sh.isArray \/ sh.isSlice
    THEN IF Convert(sh.typ, raw).ok
         THEN [err |-> NoErr,
               val |-> IF sh.isArray THEN <<Convert(sh.typ, raw).val>>
                       ELSE Append(old, Convert(sh.typ, raw).val)]
         ELSE [err |-> ErrInvalidValue(raw), val |-> old]
    ELSE IF Convert(sh.typ, raw).ok
         THEN [err |-> NoErr, val |-> Convert(sh.typ, raw).val]
         ELSE [err |-> ErrInvalidValue(raw), val |-> old]

\* lines 221-245: the body of the loop of setValues for one argument
SetOne(sh, raws, old) ==
    IF Len(raws) > 1 THEN setArrayValue(sh, raws, old)
    ELSE LET val == raws[1]
         IN IF sh.typ = "text"
            THEN IF TextAccepts(val) THEN [err |-> NoErr, val |-> val]
                 ELSE [err |-> ErrInvalidValue(val), val |-> old]
            ELSE IF sh.typ = "enum"
            THEN [err |-> NoErr, val |-> EnumValue(ToLower(val))]
            ELSE setScalarValue(sh, val, old)

\* line 220
MarkSet_never(set, a) == set

MarkSet(set, a) == [set EXCEPT ![a] = TRUE]

\* lines 218-248: setValues, the map being ranged over in the order given
RECURSIVE setValues(_, _, _)
setValues(order, vals, st) ==
    IF order = <<>> THEN st
    ELSE LET a == Head(order)
             r == SetOne(Arg(a), vals[a], st.field[a])
             st1 == [isSet |-> MarkSet(st.isSet, a),
                     field |-> [st.field EXCEPT ![a] = r.val],
                     err |-> r.err,
                     applied |-> [st.applied EXCEPT ![a] = @ + 1]]
         IN IF r.err # NoErr THEN st1 ELSE setValues(Tail(order), vals, st1)

\* the orders in which a range over the map may visit its keys
Keys(vals) == {a \in ArgIds : vals[a] # <<>>}

Orders(S) == {o \in SeqsUpTo(S, Cardinality(S)) :
                 Len(o) = Cardinality(S) /\ \A x, y \in DOMAIN o : x # y => o[x] # o[y]}

\* ------------------------------------------------------------------------
\* The schema builder: NewRootCommand and walkStruct
\* ------------------------------------------------------------------------
\* a field of a record type, by what walkStruct reads of it: the kind of its
\* type (behind a pointer if ptr), whether that type implements
\* encoding.TextUnmarshaler, whether the field is embedded (Anonymous), its
\* cli tag ("-": skip; isArg; global), and the fields of a record type
Field(kind, ptr, anon, isArgTag, text, skip, global, sub) ==
    [kind |-> kind, ptr |-> ptr, anon |-> anon, isArg |-> isArgTag, text |-> text,
     skip |-> skip, global |-> global, sub |-> sub]

\* an int field, global or not
Scalar(global) == Field("int", FALSE, FALSE, FALSE, FALSE, FALSE, global, <<>>)

\* the ways a field of record type is declared: by value or by pointer,
\* then plain, tagged isArg or embedded; a pointer to a record that is a
\* TextUnmarshaler; a pointer to a record behind the tag "-"
RecordFields(types) ==
    {Field("struct", ptr, FALSE, FALSE, FALSE, FALSE, FALSE, t) : ptr \in BOOLEAN, t \in types}
    \cup {Field("struct", ptr, FALSE, TRUE, FALSE, FALSE, FALSE, t) : ptr \in BOOLEAN, t \in types}
    \cup {Field("struct", ptr, TRUE, FALSE, FALSE, FALSE, FALSE, t) : ptr \in BOOLEAN, t \in types}
    \cup {Field("struct", TRUE, FALSE, FALSE, TRUE, FALSE, FALSE, t) : t \in types}
    \cup {Field("struct", TRUE, FALSE, FALSE, FALSE, TRUE, FALSE, t) : t \in types}

\* the same for the records nested one level deeper: by value or by
\* pointer, a pointer tagged isArg, a pointer to a TextUnmarshaler
InnerRecordFields(types) ==
    {Field("struct", ptr, FALSE, FALSE, FALSE, FALSE, FALSE, t) : ptr \in BOOLEAN, t \in types}
    \cup {Field("struct", TRUE, FALSE, TRUE, FALSE, FALSE, FALSE, t) : t \in types}
    \cup {Field("struct", TRUE, FALSE, FALSE, TRUE, FALSE, FALSE, t) : t \in types}

\* the record types of the model, innermost first; the fields of a record
\* are named by their position
LeafTypes == {<<Scalar(TRUE)>>}

MidTypes == {<<Scalar(g)>> : g \in BOOLEAN} \cup {<<f>> : f \in InnerRecordFields(LeafTypes)}

RootFields == {Scalar(g) : g \in BOOLEAN} \cup RecordFields(MidTypes)

RootTypes == SeqsUpTo(RootFields, MaxFields)

\* the values handed to NewRootCommand: a pointer to a record, and the
\* kinds of value that are not one
RootArgs ==
    {[kind |-> "ptr-struct", fields |-> t] : t \in RootTypes}
    \cup {[kind |-> k, fields |-> <<>>] : k \in {"struct", "ptr-int", "slice-int"}}

\* the Go names of the fields of a record, by position
FieldNames == <<<<"A">>, <<"S">>, <<"X">>>>

\* Parser.argCase (CaseCamelLower) and Parser.cmdCase (CaseLower) on a
\* one-letter field name
ArgCaseParse(fn) == ToLower(fn)

CmdCaseParse(fn) == ToLower(fn)

\* Parser.argSplicer (SplicerDot)
Splice(pfx, name) == pfx \o <<".">> \o name

\* the panics of the builder
NoPanic == ""

GlobalCollision == "global args propagation collision"

NotPtrToStruct == "not ptr to struct"

ReflectPanic == "reflect: call on a type of the wrong kind"

\* the command model before the walk: the root command only
RootModel(enabled) ==
    [panic |-> NoPanic,
     enabled |-> enabled,
     cmds |-> <<[path |-> <<>>, name |-> tApp, parent |-> Nil]>>,
     args |-> <<>>,
     visited |-> <<>>,
     globals |-> {}]

\* lines 435 and 441: a nested record is walked as arguments of the
\* current command when the walk is already inside such a record, when its
\* tag says isArg or when it is held by value
IsArgGroup_byfield(f, isArg) == f.isArg \/ ~f.ptr

IsArgGroup(f, isArg) == isArg \/ f.isArg \/ ~f.ptr

\* line 451: the subcommand is walked with globals.Copy(): the set of the
\* parent is the same after the walk of the subcommand as before it
GlobalsAfterSubcommand_shared(before, inner) == inner

GlobalsAfterSubcommand(before, inner) == before

\* lines 388-510: walkStruct from field k of the record on; st is the model
\* built so far
RECURSIVE walkStruct(_, _, _, _, _, _, _)
walkStruct(k, fields, cmd, pth, pfx, isArg, st) ==
    IF st.panic # NoPanic \/ k > Len(fields) THEN st
    ELSE LET f == fields[k]
             fn == FieldNames[k]
             parsed == ArgCaseParse(fn)
             name == IF pfx # <<>> THEN Splice(pfx, parsed) ELSE parsed
             spth == Append(pth, fn)
             seen == [st EXCEPT !.visited = Append(@, [path |-> spth, field |-> f, name |-> name,
                                                        cmd |-> cmd, isArg |-> isArg])]
         IN IF f.skip THEN walkStruct(k + 1, fields, cmd, pth, pfx, isArg, st)
            ELSE IF f.kind = "struct" /\ ~f.text
            THEN IF f.anon
                 THEN walkStruct(k + 1, fields, cmd, pth, pfx, isArg,
                                 walkStruct(1, f.sub, cmd, spth, pfx, isArg, seen))
                 ELSE IF IsArgGroup(f, isArg)
                 THEN walkStruct(k + 1, fields, cmd, pth, pfx, isArg,
                                 walkStruct(1, f.sub, cmd, spth, name, TRUE, seen))
                 ELSE LET sc == [path |-> spth, name |-> CmdCaseParse(fn), parent |-> cmd]
                          inner == walkStruct(1, f.sub, spth, spth, <<>>, FALSE,
                                              [seen EXCEPT !.cmds = Append(@, sc)])
                      IN walkStruct(k + 1, fields, cmd, pth, pfx, isArg,
                                    [inner EXCEPT !.globals =
                                         GlobalsAfterSubcommand(st.globals, inner.globals)])
            ELSE IF st.enabled /\ f.global /\ name \in st.globals
            THEN [st EXCEPT !.panic = GlobalCollision]
            ELSE walkStruct(k + 1, fields, cmd, pth, pfx, isArg,
                            [st EXCEPT !.globals = IF st.enabled /\ f.global
                                                   THEN @ \cup {name} ELSE @,
                                       !.args = Append(@, [cmd |-> cmd, path |-> spth,
                                                           long |-> <<"-", "-">> \o name,
                                                           global |-> f.global])])

\* lines 63-77: what NewRootCommand makes of the value a
Build(a, enabled) ==
    CASE a.kind = "ptr-struct" -> walkStruct(1, a.fields, <<>>, <<>>, <<>>, FALSE, RootModel(enabled))
      [] a.kind = "slice-int" -> [RootModel(enabled) EXCEPT !.panic = NotPtrToStruct]
      [] OTHER -> [RootModel(enabled) EXCEPT !.panic = ReflectPanic]

\* NewRootCommand called on a parser made with or without
\* WithGlobalArgsEnabled
NewRootCommand ==
    /\ bpc = "new"
    /\ LET model == Build(rootArg, globalsEnabled)
       IN /\ built' = model
          /\ bpc' = IF model.panic = NoPanic THEN "built" ELSE "panicked"
    /\ UNCHANGED <<rootArg, globalsEnabled>>
    /\ UNCHANGED <<execVars, evalVars>>

\* the builder is over: a root with an argument and a subcommand
BuildDone ==
    /\ rootArg = [kind |-> "ptr-struct",
                  fields |-> <<Scalar(FALSE),
                               Field("struct", TRUE, FALSE, FALSE, FALSE, FALSE, FALSE, <<Scalar(FALSE)>>)>>]
    /\ globalsEnabled = FALSE
    /\ bpc = "built"
    /\ built = Build(rootArg, globalsEnabled)

\* ------------------------------------------------------------------------
\* Eval
\* ------------------------------------------------------------------------
\* the argument vectors of at most n tokens after the command name
ArgVectors(T, n) == {<<name>> \o rest : name \in CmdNames, rest \in SeqsUpTo(T, n)}

\* the parser after NewParser and NewRootCommand, no Eval begun
EvalFresh ==
    /\ isSet = [a \in ArgIds |-> FALSE]
    /\ field = [a \in ArgIds |-> ZeroValue(Arg(a))]
    /\ epc = "idle"
    /\ args = <<>>
    /\ ei = 0
    /\ c = Nil
    /\ positional = FALSE
    /\ positionals = <<>>
    /\ values = [a \in ArgIds |-> <<>>]
    /\ eret = NoErr
    /\ termAt = 0
    /\ ncalls = 0
    /\ applied = [a \in ArgIds |-> 0]
    /\ BuildDone

EvalInit ==
    /\ shapeA \in ArgShapes
    /\ leafSubcmdNil \in BOOLEAN
    /\ EvalFresh

\* the same parser with one schema, for the runs that only execute
EvalIdle ==
    /\ shapeA = Argument("bool", FALSE, FALSE, 0, FALSE, FALSE)
    /\ leafSubcmdNil = FALSE
    /\ EvalFresh

\* lines 98 and 127: p.execTree = append(p.execTree, c.path.Get())
Visit_prepend(tree, cmd) == <<PathGet(cmd)>> \o tree

Visit(tree, cmd) == Append(tree, PathGet(cmd))

\* lines 85-102: the command lookup and the locals of Eval
EvalBegin(argv) ==
    /\ epc \in {"idle", "returned"}
    /\ ncalls' = ncalls + 1
    /\ LET found == IF RootCmd(argv[1]) # Nil THEN RootCmd(argv[1]) ELSE RootCmd(Base(argv[1]))
       IN IF found = Nil
          THEN /\ eret' = ErrCommandNotFound(argv[1])
               /\ epc' = "returned"
               /\ c' = Nil
               /\ args' = <<>>
               /\ UNCHANGED execTree
          ELSE /\ eret' = NoErr
               /\ epc' = "loop"
               /\ c' = found
               /\ args' = Tail(argv)
               /\ execTree' = Visit(execTree, found)
    /\ ei' = 0
    /\ positional' = FALSE
    /\ positionals' = <<>>
    /\ values' = [a \in ArgIds |-> <<>>]
    /\ termAt' = 0
    /\ applied' = [a \in ArgIds |-> 0]
    /\ UNCHANGED <<shapeA, leafSubcmdNil, isSet, field>>
    /\ UNCHANGED <<execLocals, buildVars>>

\* lines 171-180: greedy capture of a fixed-length array, from iteration j
RECURSIVE GreedyArray(_, _, _, _)
GreedyArray(j, n, vals, k) ==
    IF j >= n THEN [panic |-> FALSE, vals |-> vals, i |-> k]
    ELSE IF k + 1 >= Len(args) THEN [panic |-> TRUE, vals |-> vals, i |-> k]
    ELSE LET val == args[k + 2]
         IN IF isFlag(val) THEN GreedyArray(j + 1, n, vals, k)
            ELSE GreedyArray(j + 1, n, Append(vals, val), k + 1)

\* lines 182-188: greedy capture of a slice: a range over args[i+1:]
GreedySlice(vals, k) ==
    LET rest == SubSeq(args, k + 2, Len(args))
        taken == SelectSeq(rest, LAMBDA t : ~isFlag(t))
    IN [panic |-> FALSE, vals |-> vals \o taken, i |-> k + Len(taken)]

\* the state one iteration of the loop works on
Local ==
    [returned |-> FALSE, eret |-> NoErr, i |-> ei, c |-> c, positional |-> positional,
     positionals |-> positionals, values |-> values, isSet |-> isSet, field |-> field,
     tree |-> execTree, applied |-> applied]

Return(e) == [Local EXCEPT !.returned = TRUE, !.eret = e]

\* lines 117-132: a token that is not a flag
Word(arg, order) ==
    IF ~SubcmdIsNil(c)
    THEN LET cc == Subcmd(c, arg)
         IN IF cc = Nil THEN Return(ErrCommandNotFound(arg))
            ELSE LET st == setValues(order, values, [isSet |-> isSet, field |-> field, err |-> NoErr,
                                                     applied |-> applied])
                 IN IF st.err # NoErr
                    THEN [Local EXCEPT !.returned = TRUE, !.eret = st.err,
                                       !.isSet = st.isSet, !.field = st.field,
                                       !.applied = st.applied]
                    ELSE [Local EXCEPT !.isSet = st.isSet, !.field = st.field, !.c = cc,
                                       !.tree = Visit(execTree, cc), !.applied = st.applied]
    ELSE [Local EXCEPT !.positionals = Append(positionals, arg)]

\* lines 156-190: a flag of an array or a slice
ArrayFlag(a, val) ==
    LET sh == Arg(a)
    IN IF sh.separate
       THEN IF sh.isArray /\ Len(values[a]) = sh.arrayLen THEN Return(ErrOverCapacity)
            ELSE IF val = tEmpty
                 THEN IF ei + 1 >= Len(args) THEN Return(EvalPanic)
                      ELSE [Local EXCEPT !.values[a] = Append(values[a], args[ei + 2]), !.i = ei + 1]
                 ELSE [Local EXCEPT !.values[a] = Append(values[a], val)]
       ELSE LET g == IF sh.isArray THEN GreedyArray(0, sh.arrayLen, values[a], ei)
                     ELSE GreedySlice(values[a], ei)
            IN IF g.panic THEN Return(EvalPanic)
               ELSE [Local EXCEPT !.values[a] = g.vals, !.i = g.i]

\* lines 192-202: a flag of a scalar
ScalarFlag(a, val, compositeFlag) ==
    IF compositeFlag THEN [Local EXCEPT !.values[a] = <<val>>]
    ELSE IF isBool(a) THEN [Local EXCEPT !.values[a] = <<tTrue>>]
    ELSE IF ei + 1 >= Len(args) THEN Return(EvalPanic)
    ELSE [Local EXCEPT !.values[a] = <<args[ei + 2]>>, !.i = ei + 1]

\* lines 142-202: a token that is a flag
Flag(arg) ==
    LET idx == IndexEq(arg)
        compositeFlag == idx # -1
        name == IF compositeFlag THEN SliceTo(arg, idx) ELSE arg
    IN IF compositeFlag /\ ~SliceFromOK(name, idx + 1) THEN Return(EvalPanic)
       ELSE LET val == IF compositeFlag THEN SliceFrom(name, idx + 1) ELSE tEmpty
                a == GetFlag(c, name)
            IN IF a = Nil THEN Return(ErrNoSuchFlag(name))
               ELSE IF Arg(a).isArray \/ Arg(a).isSlice THEN ArrayFlag(a, val)
               ELSE ScalarFlag(a, val, compositeFlag)

\* lines 105-203: the body of the loop for the token under the cursor
LoopBody(order) ==
    LET arg == args[ei + 1]
    IN IF arg = tTerm THEN [Local EXCEPT !.positional = TRUE]
       ELSE IF positional THEN [Local EXCEPT !.positionals = Append(positionals, arg)]
       ELSE IF ~isFlag(arg) THEN Word(arg, order)
       ELSE Flag(arg)

\* lines 103-203: one iteration of the loop of Eval
EvalArg ==
    /\ epc = "loop"
    /\ ei < Len(args)
    /\ \E order \in Orders(Keys(values)) :
         LET n == LoopBody(order)
         IN /\ epc' = IF n.returned THEN "returned" ELSE "loop"
            /\ eret' = n.eret
            /\ ei' = IF n.returned THEN ei ELSE n.i + 1
            /\ c' = n.c
            /\ positional' = n.positional
            /\ positionals' = n.positionals
            /\ values' = n.values
            /\ isSet' = n.isSet
            /\ field' = n.field
            /\ execTree' = n.tree
            /\ applied' = n.applied
            /\ termAt' = IF n.positional /\ ~positional THEN ei + 1 ELSE termAt
    /\ UNCHANGED <<shapeA, leafSubcmdNil, args, ncalls>>
    /\ UNCHANGED <<execLocals, buildVars>>

\* lines 209-213: the first required argument of the command that is not set
RequiredCheck(cmd, set) ==
    IF \E a \in AllFlags(cmd) : Arg(a).required /\ ~set[a]
    THEN ErrRequired(Long(CHOOSE a \in AllFlags(cmd) : Arg(a).required /\ ~set[a]))
    ELSE NoErr

\* lines 205-215: the final commit and the required check
EvalEnd ==
    /\ epc = "loop"
    /\ ei >= Len(args)
    /\ \E order \in Orders(Keys(values)) :
         LET st == setValues(order, values, [isSet |-> isSet, field |-> field, err |-> NoErr,
                                             applied |-> applied])
         IN /\ isSet' = st.isSet
            /\ field' = st.field
            /\ applied' = st.applied
            /\ eret' = IF st.err # NoErr THEN st.err ELSE RequiredCheck(c, st.isSet)
    /\ epc' = "returned"
    /\ UNCHANGED <<shapeA, leafSubcmdNil, args, ei, c, positional, positionals, values, termAt,
                   ncalls, execTree>>
    /\ UNCHANGED <<execLocals, buildVars>>

\* Execute is not running
ExecIdle ==
    /\ strategy = OnErrorBreak
    /\ execTree = <<>>
    /\ implements = [x \in Instances |-> {}]
    /\ pc = "start"
    /\ i = 1
    /\ lastCmd = 0
    /\ pPostRunners = <<>>
    /\ err = NoErr
    /\ ctx = NoErr
    /\ ret = NoErr
    /\ calls = <<>>
    /\ entered = <<>>
    /\ nfail = 0

\* the argument vectors of one Eval call on a fresh parser
EvalInputs == ArgVectors(Tokens, MaxArgs)

\* one Eval call on a fresh parser
Eval ==
    /\ ncalls < 1
    /\ \E argv \in EvalInputs : EvalBegin(argv)

InitEval == ExecIdle /\ EvalInit

NextEval ==
    \/ Eval
    \/ EvalArg
    \/ EvalEnd

SpecEval == InitEval /\ [][NextEval]_vars

\* the tokens the argument vectors of repeated calls are drawn from
RepeatTokens == {tA, tB, tServe, t1, tX}

RepeatInputs == ArgVectors(RepeatTokens, MaxArgs)

\* one more Eval call on the same parser, the earlier one having returned
EvalAgain ==
    /\ ncalls < MaxCalls
    /\ \E argv \in RepeatInputs : EvalBegin(argv)

NextRepeat ==
    \/ EvalAgain
    \/ EvalArg
    \/ EvalEnd

SpecRepeat == InitEval /\ [][NextRepeat]_vars

\* the parser of a program that calls Eval any number of times and then
\* Execute: one schema, instances that are PersistentPostRunners, nothing
\* run yet
InitTree ==
    /\ shapeA = Argument("int", FALSE, FALSE, 0, FALSE, FALSE)
    /\ leafSubcmdNil \in BOOLEAN
    /\ EvalFresh
    /\ strategy \in OnErrorStrategy
    /\ execTree = <<>>
    /\ implements = [x \in Instances |-> {"PersistentPostRun"}]
    /\ pc = "start"
    /\ i = 1
    /\ lastCmd = 0
    /\ pPostRunners = <<>>
    /\ err = NoErr
    /\ ctx = NoErr
    /\ ret = NoErr
    /\ calls = <<>>
    /\ entered = <<>>
    /\ nfail = 0

\* the argument vectors of these calls: a known and an unknown command
\* name, then the subcommand, an unknown word, the flag and a value
TreeInputs == {<<name>> \o rest : name \in {tApp, tNoCmd},
                                  rest \in SeqsUpTo({tServe, tX, tA, t1}, MaxArgs)}

\* one more Eval call, Execute not yet called
EvalBeforeExecute ==
    /\ pc = "start"
    /\ ncalls < MaxCalls
    /\ \E argv \in TreeInputs : EvalBegin(argv)

\* Execute called after the Eval calls
ExecuteAfterEval ==
    /\ epc \in {"idle", "returned"}
    /\ ExecuteStart

NextTree ==
    \/ EvalBeforeExecute
    \/ EvalArg
    \/ EvalEnd
    \/ ExecuteAfterEval
    \/ Enter
    \/ PreRun
    \/ Run
    \/ PostRun
    \/ CheckStrategy
    \/ PersistentPostRun
    \/ ExecuteReturn

SpecTree == InitTree /\ [][NextTree]_vars

\* a parser just made, NewRootCommand about to be called
InitBuild ==
    /\ ExecIdle
    /\ shapeA = Argument("bool", FALSE, FALSE, 0, FALSE, FALSE)
    /\ leafSubcmdNil = FALSE
    /\ isSet = [a \in ArgIds |-> FALSE]
    /\ field = [a \in ArgIds |-> ZeroValue(Arg(a))]
    /\ epc = "idle"
    /\ args = <<>>
    /\ ei = 0
    /\ c = Nil
    /\ positional = FALSE
    /\ positionals = <<>>
    /\ values = [a \in ArgIds |-> <<>>]
    /\ eret = NoErr
    /\ termAt = 0
    /\ ncalls = 0
    /\ applied = [a \in ArgIds |-> 0]
    /\ rootArg \in RootArgs
    /\ globalsEnabled \in BOOLEAN
    /\ bpc = "new"
    /\ built = RootModel(globalsEnabled)

NextBuild ==
    \/ NewRootCommand

SpecBuild == InitBuild /\ [][NextBuild]_vars

\* ------------------------------------------------------------------------
\* Specifications
\* ------------------------------------------------------------------------
\* Execute on a parser whose execTree earlier Eval calls have filled
Init == ExecInit /\ EvalIdle

Next ==
    \/ ExecuteStart
    \/ Enter
    \/ PreRun
    \/ Run
    \/ PostRun
    \/ CheckStrategy
    \/ PersistentPostRun
    \/ ExecuteReturn

Spec == Init /\ [][Next]_vars

\* ------------------------------------------------------------------------
\* Properties of Execute
\* ------------------------------------------------------------------------
CallIdx == DOMAIN calls

Invoked(h, n) == \E k \in CallIdx : calls[k].hook = h /\ calls[k].node = n

Failed(h, n) == \E k \in CallIdx : calls[k].hook = h /\ calls[k].node = n /\ calls[k].failed

RunFailed == \E k \in CallIdx : calls[k].hook = "Run" /\ calls[k].failed

\* the positions of the PersistentPostRun invocations, in order
RECURSIVE NodesOf(_, _)
NodesOf(cs, h) ==
    IF cs = <<>> THEN <<>>
    ELSE IF Head(cs).hook = h THEN <<Head(cs).node>> \o NodesOf(Tail(cs), h)
         ELSE NodesOf(Tail(cs), h)

RECURSIVE Reverse(_)
Reverse(s) == IF s = <<>> THEN <<>> ELSE Append(Reverse(Tail(s)), Head(s))

IsPrefix(a, b) == Len(a) <= Len(b) /\ SubSeq(b, 1, Len(a)) = a

NoDuplicates(s) == \A a, b \in DOMAIN s : a # b => s[a] # s[b]

\* the entered positions whose instance is a PersistentPostRunner
EnteredPostRunners == SelectSeq(entered, LAMBDA n : "PersistentPostRun" \in implements[execTree[n]])

\* the error of the most recent hook that failed before invocation k
LastFailureBefore(k) ==
    LET F == {m \in CallIdx : m < k /\ calls[m].failed}
    IN IF F = {} THEN NoErr
       ELSE LET m == CHOOSE x \in F : \A y \in F : y <= x
            IN HookErr(calls[m].hook, calls[m].node)

\* C1: under OnErrorBreak, once the Run hook of the last node has failed, no
\* PersistentPostRun hook has been or is ever invoked, and Execute returns
\* exactly the error of that Run hook.
C1_BreakSkipsDeferred ==
    (strategy = OnErrorBreak /\ RunFailed) =>
        /\ \A k \in CallIdx : calls[k].hook # "PersistentPostRun"
        /\ pc # "deferred"
        /\ pc = "done" => ret = HookErr("Run", Len(execTree))

\* witness of C1: Execute returned after a failed Run while PersistentPostRun
\* hooks were waiting on the deferred list
C1_Witness ==
    /\ strategy = OnErrorBreak
    /\ RunFailed
    /\ pc = "done"
    /\ Len(pPostRunners) = 2

\* C2: under OnErrorContinue, once the Run hook of the last node has failed,
\* Execute ends only after the PersistentPostRun hook of every node of the
\* tree that has one was invoked, and every hook invoked after that Run was
\* handed a context whose last-error value is the error of the most recent
\* hook that failed before it.
C2_ContinueCarriesLastError ==
    (strategy = OnErrorContinue /\ RunFailed) =>
        /\ pc = "done" =>
             \A n \in DOMAIN execTree :
                "PersistentPostRun" \in implements[execTree[n]] => Invoked("PersistentPostRun", n)
        /\ \A k \in CallIdx :
             (\E r \in CallIdx : r < k /\ calls[r].hook = "Run" /\ calls[r].failed) =>
                LastErrorFromContext(calls[k].ctx) = LastFailureBefore(k)

\* witness of C2: Run failed, a later hook failed too, and a PersistentPostRun
\* invoked after both was handed the later error
C2_Witness ==
    /\ strategy = OnErrorContinue
    /\ pc = "done"
    /\ Len(execTree) = 2
    /\ \E r, m, k \in CallIdx :
         /\ r < m /\ m < k
         /\ calls[r].hook = "Run" /\ calls[r].failed
         /\ calls[m].failed
         /\ calls[k].hook = "PersistentPostRun"
         /\ calls[k].ctx = HookErr(calls[m].hook, calls[m].node)

\* C3: once Execute is in (or past) the deferred phase, the PersistentPostRun
\* hooks invoked so far are, in order, a prefix of the reverse of the entered
\* positions that have one, the hooks still to run being the rest of it; no
\* position's hook is invoked twice; a position whose PersistentPreRun failed
\* is on that list.
C3_DeferredReverseOrder ==
    LET P == NodesOf(calls, "PersistentPostRun")
    IN /\ pc = "deferred" => P \o pPostRunners = Reverse(EnteredPostRunners)
       /\ pc \in {"deferred", "done"} =>
            /\ IsPrefix(P, Reverse(EnteredPostRunners))
            /\ NoDuplicates(P)
       /\ (pc = "done" /\ ~HaltDeferred(ret) /\ ~HaltBeforeDeferred(ret)) =>
            P = Reverse(EnteredPostRunners)
       /\ \A n \in DOMAIN execTree :
            (pc = "deferred" /\ Failed("PersistentPreRun", n)
                /\ "PersistentPostRun" \in implements[execTree[n]]) =>
               \E q \in DOMAIN (P \o pPostRunners) : (P \o pPostRunners)[q] = n

\* witness of C3: two PersistentPostRun hooks ran, the later-entered position
\* first, and the PersistentPreRun of one of them had failed
C3_Witness ==
    /\ pc = "done"
    /\ NodesOf(calls, "PersistentPostRun") = <<2, 1>>
    /\ Failed("PersistentPreRun", 2)

\* C4: PreRun, Run and PostRun are invoked only on the last position of the
\* tree, each at most once, in the order PreRun, Run, PostRun, after the
\* PersistentPreRun of every position that has one and before every
\* PersistentPostRun.
RunRank(h) == IF h = "PreRun" THEN 1 ELSE IF h = "Run" THEN 2 ELSE 3

LastNodeHooks == {"PreRun", "Run", "PostRun"}

C4_LastNodeHooksOnly ==
    \A k \in CallIdx :
        calls[k].hook \in LastNodeHooks =>
            /\ calls[k].node = Len(execTree)
            /\ \A m \in CallIdx :
                 /\ (m # k /\ calls[m].hook \in LastNodeHooks) => calls[m].hook # calls[k].hook
                 /\ (m < k /\ calls[m].hook \in LastNodeHooks) =>
                        RunRank(calls[m].hook) < RunRank(calls[k].hook)
                 /\ calls[m].hook = "PersistentPreRun" => m < k
                 /\ calls[m].hook = "PersistentPostRun" => k < m
            /\ \A n \in DOMAIN execTree :
                 "PersistentPreRun" \in implements[execTree[n]] =>
                     \E m \in CallIdx : m < k /\ calls[m].hook = "PersistentPreRun" /\ calls[m].node = n

\* witness of C4: on a tree of two positions whose first instance has all
\* the hooks, the three hooks of the last position ran between the
\* PersistentPreRun and the PersistentPostRun hooks
C4_Witness ==
    /\ pc = "done"
    /\ Len(execTree) = 2
    /\ implements[execTree[1]] = Hooks
    /\ Len(calls) = 7
    /\ calls[3].hook = "PreRun" /\ calls[4].hook = "Run" /\ calls[5].hook = "PostRun"

\* C5: under OnErrorPostRunners a failed PersistentPostRun is the last hook
\* invoked, and Execute has returned its error.
C5_PostRunnersHalt ==
    strategy = OnErrorPostRunners =>
        \A k \in CallIdx :
            (calls[k].hook = "PersistentPostRun" /\ calls[k].failed) =>
                /\ k = Len(calls)
                /\ pc = "done"
                /\ ret = HookErr("PersistentPostRun", calls[k].node)

\* witness of C5: the first deferred hook failed while another one was still
\* on the list
C5_Witness ==
    /\ strategy = OnErrorPostRunners
    /\ pc = "done"
    /\ Len(pPostRunners) = 2
    /\ calls # <<>>
    /\ calls[Len(calls)].hook = "PersistentPostRun"
    /\ calls[Len(calls)].failed

\* C6: under OnErrorPostRunners and OnErrorPostRunnersContinue, a
\* PersistentPostRun hook invoked after a hook of the main loop failed is
\* handed a context from which LastErrorFromContext returns that error.
C6_DeferredSeeMainError ==
    strategy \in {OnErrorPostRunners, OnErrorPostRunnersContinue} =>
        \A k, m \in CallIdx :
            (calls[k].hook = "PersistentPostRun" /\ m < k
                /\ calls[m].hook \in MainHooks /\ calls[m].failed) =>
               LastErrorFromContext(calls[k].ctx) = HookErr(calls[m].hook, calls[m].node)

\* a hook of the main loop failed
MainHookFailed == \E k \in CallIdx : calls[k].hook \in MainHooks /\ calls[k].failed

\* C19: under OnErrorBreak, OnErrorPostRunners and
\* OnErrorPostRunnersContinue, when Execute has returned after a hook of the
\* main loop failed, it returned a non-nil error.
C19_MainErrorReturned ==
    (pc = "done" /\ strategy \in {OnErrorBreak, OnErrorPostRunners, OnErrorPostRunnersContinue}
        /\ MainHookFailed) =>
       ret # NoErr

\* C20: under every strategy but OnErrorContinue, after a hook of the main
\* loop failed no other hook of the main loop is invoked and no position
\* after the failing one is entered, put on the deferred list or has its
\* PersistentPostRun invoked; under OnErrorContinue, once the main loop is
\* over, every position was entered in order and every hook of the main
\* loop that an instance has was invoked.
C20_FirstFailureEndsMainLoop ==
    /\ strategy # OnErrorContinue =>
         \A k \in CallIdx :
            (calls[k].hook \in MainHooks /\ calls[k].failed) =>
               /\ \A m \in CallIdx : m > k => calls[m].hook \notin MainHooks
               /\ \A q \in DOMAIN entered : entered[q] <= calls[k].node
               /\ \A q \in DOMAIN pPostRunners : pPostRunners[q] <= calls[k].node
               /\ \A m \in CallIdx : calls[m].hook = "PersistentPostRun" => calls[m].node <= calls[k].node
    /\ (strategy = OnErrorContinue /\ pc \in {"check", "deferred", "done"}) =>
         /\ entered = [n \in 1..Len(execTree) |-> n]
         /\ \A n \in DOMAIN execTree :
              "PersistentPreRun" \in implements[execTree[n]] => Invoked("PersistentPreRun", n)
         /\ \A h \in LastNodeHooks :
              (execTree # <<>> /\ h \in implements[execTree[Len(execTree)]]) =>
                 Invoked(h, Len(execTree))

\* witness of C20: under OnErrorPostRunnersContinue the PersistentPreRun of
\* the first of two positions failed, the second position has every hook
\* and was never entered, and Execute has returned
C20_Witness ==
    /\ strategy = OnErrorPostRunnersContinue
    /\ pc = "done"
    /\ Len(execTree) = 2
    /\ implements[execTree[2]] = Hooks
    /\ Failed("PersistentPreRun", 1)
    /\ entered = <<1>>

\* ------------------------------------------------------------------------
\* Properties of Eval
\* ------------------------------------------------------------------------
\* C7: in positional mode every iteration of the loop appends the token
\* under the cursor to the positionals and touches neither the flags'
\* values nor the current command nor the execution tree, and Eval goes on.
C7_AfterTerminatorAllPositional ==
    [][(epc = "loop" /\ positional /\ ei < Len(args)) =>
          /\ positionals' = Append(positionals, args[ei + 1])
          /\ values' = values
          /\ c' = c
          /\ execTree' = execTree
          /\ epc' = "loop"]_vars

\* the long flag of argument a occurs in the vector of the call
Supplied(a) == \E k \in DOMAIN args : args[k] = Long(a)

\* C8: whenever an Eval call has returned, on the first call or a later one,
\* and the command it resolved owns a required argument whose flag does not
\* occur in the vector of that call, Eval returned an error, and if that is
\* a required-flag error it names the long flag of that argument.
C8_RequiredAlwaysReported ==
    (epc = "returned" /\ c # Nil) =>
        \A a \in AllFlags(c) :
            (Arg(a).required /\ ~Supplied(a)) =>
                /\ eret # NoErr
                /\ eret[1] = "required flag not set" => eret = ErrRequired(Long(a))

\* the values the claims supply: raw string, kind of the field, coerced value
ValidValue(typ, raw) ==
    \/ typ = "string"
    \/ typ = "int" /\ raw = t1
    \/ typ = "enum" /\ raw = tX
    \/ typ = "text" /\ raw \in {t1, tX, tTerm, tA}

Expected(typ, raw) ==
    IF typ = "int" THEN 1 ELSE IF typ = "enum" THEN 2 ELSE raw

IsScalarNonBool(sh) == ~sh.isArray /\ ~sh.isSlice /\ sh.typ # "bool"

\* the vector `cmd --name value` of argument a (after the command name)
FlagValueVector(a, raw) == IF a = "A" THEN <<tA, raw>> ELSE <<tServe, tB, raw>>

\* C9: when Eval has returned from `cmd --name value`, name the flag of a
\* non-array, non-boolean argument of the resolved command and value a raw
\* string valid for its kind, it returned nil, the bound field holds the
\* coerced value and isSet of the argument is true.
C9_FlagValueSetsField ==
    epc = "returned" =>
        \A a \in ArgIds : \A raw \in Tokens :
            (IsScalarNonBool(Arg(a)) /\ ValidValue(Arg(a).typ, raw)
                /\ args = FlagValueVector(a, raw)) =>
               /\ eret = NoErr
               /\ field[a] = Expected(Arg(a).typ, raw)
               /\ isSet[a]

\* witness of C9: a required string argument was given the empty string
C9_Witness ==
    /\ epc = "returned"
    /\ shapeA = Argument("string", FALSE, FALSE, 0, FALSE, TRUE)
    /\ args = <<tA, tEmpty>>
    /\ eret = NoErr
    /\ isSet["A"]

\* k values "1" for the fixed-length array of the root: after one occurrence
\* of the flag (greedy), or one occurrence of the flag each (separate)
RECURSIVE Repeat(_, _)
Repeat(s, k) == IF k = 0 THEN <<>> ELSE s \o Repeat(s, k - 1)

ArrayVector(sep, k) == IF sep THEN Repeat(<<tA, t1>>, k) ELSE <<tA>> \o Repeat(<<t1>>, k)

\* C10: when Eval has returned from a vector that supplies k >= 1 values to
\* a fixed-length array of length N, in separate or in greedy mode: k > N
\* gives the capacity error, k = N gives nil, and k < N gives nil too.
C10_FixedArrayCapacity ==
    (epc = "returned" /\ shapeA.isArray) =>
        \A k \in 1..MaxArgs :
            args = ArrayVector(shapeA.separate, k) =>
                /\ k > shapeA.arrayLen => eret = ErrOverCapacity
                /\ k <= shapeA.arrayLen => eret = NoErr

\* the outcome of Eval of `app --a 1` on a fresh parser whose argument A is
\* a scalar: a boolean takes no value, so that "1" is looked up as a
\* subcommand of the root; any other scalar is given "1" by the final commit
SeparateValueOutcome ==
    IF shapeA.typ = "bool"
    THEN [eret |-> ErrCommandNotFound(t1), field |-> ZeroValue(shapeA), isSet |-> FALSE]
    ELSE LET st == setValues(<<"A">>, [a \in ArgIds |-> IF a = "A" THEN <<t1>> ELSE <<>>],
                             [isSet |-> [a \in ArgIds |-> FALSE],
                              field |-> [a \in ArgIds |-> ZeroValue(Arg(a))],
                              err |-> NoErr, applied |-> [a \in ArgIds |-> 0]])
         IN [eret |-> IF st.err # NoErr THEN st.err ELSE RequiredCheck("app", st.isSet),
             field |-> st.field["A"], isSet |-> st.isSet["A"]]

\* C11: when Eval has returned from `app --a=1`, A a non-array argument, the
\* error, the bound field and isSet are those Eval of `app --a 1` ends in.
C11_InlineValueEquivalent ==
    (epc = "returned" /\ ~shapeA.isArray /\ ~shapeA.isSlice /\ args = <<tAeq1>>) =>
        /\ eret = SeparateValueOutcome.eret
        /\ field["A"] = SeparateValueOutcome.field
        /\ isSet["A"] = SeparateValueOutcome.isSet

\* the flags that need a following value: a scalar that is not a boolean,
\* an array or a slice in separate mode, a fixed-length array in greedy mode
NeedsValue(sh) ==
    \/ ~sh.isArray /\ ~sh.isSlice /\ sh.typ # "bool"
    \/ (sh.isArray \/ sh.isSlice) /\ sh.separate
    \/ sh.isArray /\ ~sh.separate

\* the vector that ends in the flag of argument a (after the command name)
LastFlagVector(a) == IF a = "A" THEN <<tA>> ELSE <<tServe, tB>>

\* C12: when Eval has returned from a vector whose last token is a flag that
\* needs a following value, it returned an error, and that error is an
\* ordinary one: Eval did not panic on a read past the end of the vector.
C12_MissingValueIsError ==
    epc = "returned" =>
        \A a \in ArgIds :
            (NeedsValue(Arg(a)) /\ args = LastFlagVector(a)) =>
                /\ eret # NoErr
                /\ eret # EvalPanic

\* the name of a flag token: the token up to its first '=', if it has one
FlagName(arg) == IF IndexEq(arg) # -1 THEN SliceTo(arg, IndexEq(arg)) ELSE arg

\* C13: before the terminator, an iteration of the loop whose token looks
\* like a flag and names no flag of the current command makes Eval return
\* the no-such-flag error of that name, and one whose token does not look
\* like a flag and names no subcommand of the current command makes Eval
\* return the command-not-found error of that token.
C13_UnknownTokenStops ==
    [][(epc = "loop" /\ ~positional /\ ei < Len(args) /\ args[ei + 1] # tTerm) =>
          /\ (isFlag(args[ei + 1]) /\ GetFlag(c, FlagName(args[ei + 1])) = Nil) =>
                (epc' = "returned" /\ eret' = ErrNoSuchFlag(FlagName(args[ei + 1])))
          /\ (~isFlag(args[ei + 1]) /\ Subcmd(c, args[ei + 1]) = Nil) =>
                (epc' = "returned" /\ eret' = ErrCommandNotFound(args[ei + 1]))]_vars

\* ------------------------------------------------------------------------
\* Properties of the execution tree
\* ------------------------------------------------------------------------
\* the instances a step visits: the root command a beginning call found,
\* the subcommand an iteration of the loop entered
VisitedByStep ==
    IF ncalls' # ncalls THEN (IF c' = Nil THEN <<>> ELSE <<PathGet(c')>>)
    ELSE IF c' # c THEN <<PathGet(c')>>
    ELSE <<>>

\* C14: every step of Eval appends to execTree the instance it visits (the
\* root command when the call begins and its name is known, nothing when it
\* is unknown, the subcommand when one is entered, also in a call that fails
\* later) and no step of Eval or Execute changes execTree in another way, so
\* that the tree is the concatenation of the chains visited, in call order.
C14_TreeIsVisitedChains ==
    [][execTree' = execTree \o VisitedByStep]_vars

\* witness of C14: a call resolved the subcommand, a second call failed
\* after its root command was found, and Execute has run over the three
\* entries
C14_Witness ==
    /\ ncalls = 2
    /\ execTree = <<"app", "serve", "app">>
    /\ eret = ErrCommandNotFound(tX)
    /\ pc = "done"
    /\ Len(calls) = 3

\* the step is a commit: the end of the input, or, before the terminator, a
\* token that names a subcommand of the current command
AtCommit ==
    /\ epc = "loop"
    /\ \/ ei >= Len(args)
       \/ /\ ~positional
          /\ args[ei + 1] # tTerm
          /\ ~isFlag(args[ei + 1])
          /\ ~SubcmdIsNil(c)
          /\ Subcmd(c, args[ei + 1]) # Nil

\* C15: within one Eval call a step writes a bound field or an isSet mark
\* only at a subcommand transition or at the end of the input, no argument
\* has its raw values applied more than once, and when Eval returns nil
\* every argument that has raw values was applied exactly once.
C15_ValuesAppliedOnce ==
    [][/\ (field' # field \/ isSet' # isSet) => AtCommit
       /\ \A a \in ArgIds : applied'[a] <= 1
       /\ (epc' = "returned" /\ eret' = NoErr) =>
             \A a \in ArgIds : values'[a] # <<>> => applied'[a] = 1]_vars

\* the maximal run of tokens of args from position k on (1-based) that do
\* not look like flags
RECURSIVE RunFrom(_)
RunFrom(k) ==
    IF k > Len(args) \/ isFlag(args[k]) THEN <<>>
    ELSE <<args[k]>> \o RunFrom(k + 1)

\* C16: the iteration of the loop whose token is the flag of a growable
\* list in greedy mode appends to the raw values of the flag exactly the
\* maximal run of tokens that follow it and do not look like flags, and
\* leaves the cursor on the token after the last one captured.
C16_GreedyCapturesMaximalRun ==
    [][(epc = "loop" /\ ~positional /\ ei < Len(args) /\ c = "app" /\ args[ei + 1] = tA
          /\ shapeA.isSlice /\ ~shapeA.separate) =>
          /\ epc' = "loop"
          /\ values'["A"] = values["A"] \o RunFrom(ei + 2)
          /\ ei' = ei + 1 + Len(RunFrom(ei + 2))]_vars

\* ------------------------------------------------------------------------
\* Properties of the schema builder
\* ------------------------------------------------------------------------
\* the record type in the order of the walk, whatever the option: the
\* model the walk builds without the collision check
Declared == Build(rootArg, FALSE)

\* two arguments declared global under the same name
SameGlobal(a1, a2) == a1.global /\ a2.global /\ a1.long = a2.long

\* two distinct subcommands of one command hold, each in its branch, a
\* global argument of the same name
SiblingCollision ==
    LET d == Declared
    IN \E x, y \in DOMAIN d.cmds :
          /\ x # y
          /\ d.cmds[x].parent # Nil
          /\ d.cmds[x].parent = d.cmds[y].parent
          /\ \E m, n \in DOMAIN d.args :
                /\ SameGlobal(d.args[m], d.args[n])
                /\ IsPrefix(d.cmds[x].path, d.args[m].cmd)
                /\ IsPrefix(d.cmds[y].path, d.args[n].cmd)

\* a global argument has the name of a global argument that the same
\* command or one of its ancestors declared earlier in the walk
InheritedCollision ==
    LET d == Declared
    IN \E m, n \in DOMAIN d.args :
          /\ m < n
          /\ SameGlobal(d.args[m], d.args[n])
          /\ IsPrefix(d.args[m].cmd, d.args[n].cmd)

\* C17 as stated: once NewRootCommand is over for a pointer to a record,
\* with global propagation enabled it has panicked with the collision
\* whenever two sibling subcommand branches each declare a global argument
\* of the same name, and with propagation disabled it has not panicked with
\* the collision.
C17_SiblingCollisionPanics ==
    (bpc # "new" /\ rootArg.kind = "ptr-struct") =>
        /\ (globalsEnabled /\ SiblingCollision) => built.panic = GlobalCollision
        /\ ~globalsEnabled => built.panic # GlobalCollision

\* C17 amended: once NewRootCommand is over for a pointer to a record, it
\* has panicked with the collision exactly when global propagation is
\* enabled and a global argument has the name of a global argument that
\* the same command or an ancestor command declared earlier in the walk;
\* sibling branches do not collide with each other.
C17_InheritedCollisionPanics ==
    (bpc # "new" /\ rootArg.kind = "ptr-struct") =>
        (built.panic = GlobalCollision <=> (globalsEnabled /\ InheritedCollision))

\* witness of C17: with propagation enabled the builder went through a root
\* whose two subcommands each declare the global argument --a
C17_Witness ==
    /\ bpc = "built"
    /\ globalsEnabled
    /\ SiblingCollision
    /\ ~InheritedCollision
    /\ Len(built.cmds) = 3

\* the nested-record fields the walk has classified: visited, and not
\* embedded
Classified == {k \in DOMAIN built.visited : ~built.visited[k].field.anon}

\* the field of the visit e became a subcommand of the command being
\* walked, and the arguments its own fields gave carry no prefix
IsSubcommand(e) ==
    /\ \E k \in DOMAIN built.cmds :
          built.cmds[k].path = e.path /\ built.cmds[k].parent = e.cmd
    /\ \A n \in DOMAIN built.args :
          (built.args[n].cmd = e.path /\ Len(built.args[n].path) = Len(e.path) + 1) =>
             built.args[n].long = <<"-", "-">> \o ArgCaseParse(built.args[n].path[Len(e.path) + 1])

\* the field of the visit e became an argument-group: no command of its
\* own, every argument below it belongs to the command being walked and is
\* named under the name of the field
IsArgumentGroup(e) ==
    /\ \A k \in DOMAIN built.cmds : built.cmds[k].path # e.path
    /\ \A n \in DOMAIN built.args :
          (IsPrefix(e.path, built.args[n].path) /\ built.args[n].path # e.path) =>
             /\ built.args[n].cmd = e.cmd
             /\ IsPrefix(<<"-", "-">> \o e.name \o <<".">>, built.args[n].long)

\* C18 as stated: once the builder is over, every nested-record field it
\* visited, embedded ones apart, is an argument-group if its tag says isArg
\* or it is held by value, and a subcommand without name prefix otherwise,
\* at whatever depth it lies.
C18_ClassifiedByField ==
    bpc = "built" =>
        \A k \in Classified :
            IF built.visited[k].field.isArg \/ ~built.visited[k].field.ptr
            THEN IsArgumentGroup(built.visited[k])
            ELSE IsSubcommand(built.visited[k])

\* C18 amended: once the builder is over, every nested-record field it
\* visited, embedded ones apart, is an argument-group if it lies inside an
\* argument-group, if its tag says isArg or if it is held by value, and a
\* subcommand without name prefix otherwise.
C18_ClassifiedByFieldAndContext ==
    bpc = "built" =>
        \A k \in Classified :
            IF built.visited[k].isArg \/ built.visited[k].field.isArg \/ ~built.visited[k].field.ptr
            THEN IsArgumentGroup(built.visited[k])
            ELSE IsSubcommand(built.visited[k])

\* witness of C18: the builder went through a record held by value that
\* holds a plain pointer to a record, and through a plain pointer to a
\* record at the top, which became a subcommand
C18_Witness ==
    /\ bpc = "built"
    /\ \E k \in Classified :
          /\ built.visited[k].isArg
          /\ built.visited[k].field.ptr
          /\ ~built.visited[k].field.isArg
          /\ built.visited[k].field.sub # <<>>
    /\ \E k \in Classified : ~built.visited[k].isArg /\ IsSubcommand(built.visited[k])
    /\ Len(built.args) = 2

====
